---- MODULE Spec2Model ----
(***************************************************************************)
(* Model of the team ledger engine of src/src/db.js (TeamManager over one  *)
(* shared sqlite3 connection) as driven by the routes of src/src/index.js. *)
(*                                                                         *)
(* One step of the model is the execution of one SQL statement on the      *)
(* shared connection together with the JavaScript callback that sqlite3    *)
(* runs on its completion.  A request is a chain of such steps; steps of   *)
(* different requests interleave freely, because the connection is in      *)
(* sqlite3's default parallel mode everywhere except inside db.serialize.  *)
(***************************************************************************)
EXTENDS Integers, Sequences, FiniteSets, TLC

(* ---------------------------------------------------------------- bounds *)

\* Requests that may be in flight at the same time.
MaxOps == 2

\* Requests accepted over one run of the model when each is sent after the
\* previous one has ended.
MaxCalls == 4

\* Requests accepted over one run when they may overlap.
MaxRacing == 3
MaxLedgerCalls == 5

\* Invitation tokens minted over one run.
MaxInvites == 2

\* Rows AUTOINCREMENT may hand out in team_expenses.
MaxExpenses == 2

\* The clock: days the model runs for, and instants it tells apart in a day.
MaxDay == 8

TicksPerDay == 2

(* ----------------------------------------------------- program constants *)

\* expiresAt.setDate(expiresAt.getDate() + 7)
ExpiryDays == 7

(* --------------------------------------------------------------- values *)

\* What sqlite3 binds for a JavaScript undefined/null parameter.
Null == "NULL"

\* Session users (identity provider ids, text).
Users == {"u1", "u2"}

\* req.session.user.email, one per user.
EmailOf(u) == IF u = "u1" THEN "u1@mail" ELSE "u2@mail"

\* req.session.user.user_metadata.name: a name, or undefined for an account
\* registered without one.
ProfileNames == {"nm", Null}

\* req.body.name of POST /api/teams.
TeamNames == {"A", "B"}

\* Values uuidv4() may return for a team id, shortened to two groups: one
\* with a hex letter in it and one made of decimal digits only.
TeamUuids == {"a-1", "4-1"}

\* A team id no createTeam ever returned (any other text of a URL).
BogusTeam == "5"

\* Tokens in the order generateInviteLink mints them (SHA-256 digests: opaque
\* and distinct), and a token nobody minted.
TokenOf(n) == IF n = 1 THEN "k1" ELSE IF n = 2 THEN "k2" ELSE "k3"

BogusToken == "k0"

Slots == 1..MaxOps

\* A value stored in a column: an integer or a text.
IntVal(n) == [int |-> TRUE, n |-> n, s |-> ""]

TextVal(x) == [int |-> FALSE, n |-> 0, s |-> x]

\* The NULL a column holds when nothing, or a NaN, was bound to it.
NullVal == TextVal(Null)

\* The tables db.js creates.
Tables ==
  {"teams", "team_members", "team_invitations", "team_expenses",
   "expense_members"}

(* ------------------------------------------------------------ the clock *)

\* Character codes of the separators of the two timestamp formats.
CharSpace == 32

CharT == 84

MaxNow == (MaxDay + 1) * TicksPerDay - 1

DayOf(t) == t \div TicksPerDay

TickOf(t) == t % TicksPerDay

\* Date.prototype.toISOString(): "YYYY-MM-DDTHH:MM:SS.mmmZ".
toISOString(t) == <<DayOf(t), CharT, TickOf(t)>>

\* SQLite's CURRENT_TIMESTAMP: "YYYY-MM-DD HH:MM:SS".
CURRENT_TIMESTAMP(t) == <<DayOf(t), CharSpace, TickOf(t)>>

\* a > b for two texts, compared position by position as SQLite's BINARY
\* collation does (both here have the same number of fields).
RECURSIVE TextGreaterFrom(_, _, _)
TextGreaterFrom(a, b, i) ==
  IF i > Len(a) \/ i > Len(b) THEN Len(a) > Len(b)
  ELSE IF a[i] # b[i] THEN a[i] > b[i]
  ELSE TextGreaterFrom(a, b, i + 1)

TextGreater(a, b) == TextGreaterFrom(a, b, 1)

(* ------------------------------------------------------------- the state *)

VARIABLES
  db,      \* the tables as the connection sees them
  txn,     \* whether the connection is inside BEGIN ... COMMIT/ROLLBACK
  snap,    \* the tables as they were at BEGIN (what ROLLBACK restores)
  ops,     \* the requests in flight, one per slot
  now,     \* the clock
  uuids,   \* team ids uuidv4() has returned so far
  minted,  \* number of invitation tokens minted so far
  calls,   \* requests accepted so far
  reply,   \* what the step just taken answered to its caller, if it did
  solo,    \* whether requests arrive one at a time, each after the last ended
  budget   \* how many requests the clients send in all

vars == <<db, txn, snap, ops, now, uuids, minted, calls, reply, solo, budget>>

EmptyDb ==
  [teams |-> {}, team_members |-> {}, team_invitations |-> {},
   team_expenses |-> {}, expense_members |-> {}, seq |-> 0]

\* What getTeamDetails holds before its queries have answered.
NoDetails ==
  [total_members |-> 0, amount |-> 0, totalAmount |-> 0,
   collectedAmount |-> 0, paidMembers |-> 0]

\* A field the JSON body of a request does not have.
NoBody == [type |-> "undefined", text |-> <<>>]

Idle ==
  [op |-> "none", pc |-> "idle", team |-> "", user |-> "", name |-> "",
   pname |-> "", token |-> "", expires |-> <<>>, members |-> <<>>,
   eid |-> 0, pend |-> {}, member |-> "", amount |-> NullVal, paid |-> 0,
   desc |-> "", row |-> NullVal, body |-> NoBody, got |-> NoDetails]

\* No promise was settled by the step.
NoReply ==
  [op |-> "none", team |-> "", user |-> "", name |-> "", pname |-> "",
   token |-> "", members |-> <<>>, eid |-> 0, res |-> "", val |-> "",
   changes |-> 0, member |-> "", amount |-> NullVal, paid |-> 0,
   desc |-> "", out |-> {}, body |-> NoBody]

Init ==
  /\ db = EmptyDb
  /\ txn = FALSE
  /\ snap = EmptyDb
  /\ ops = [s \in Slots |-> Idle]
  /\ now = 0
  /\ uuids = {}
  /\ minted = 0
  /\ calls = 0
  /\ reply = NoReply
  /\ solo = FALSE
  /\ budget = MaxRacing

\* The same server when every request is sent after the previous one ended.
InitSeq ==
  /\ db = EmptyDb
  /\ txn = FALSE
  /\ snap = EmptyDb
  /\ ops = [s \in Slots |-> Idle]
  /\ now = 0
  /\ uuids = {}
  /\ minted = 0
  /\ calls = 0
  /\ reply = NoReply
  /\ solo = TRUE
  /\ budget = MaxCalls

\* One request at a time, enough of them for a second member to join a
\* team and be marked paid.
InitLedger ==
  /\ db = EmptyDb
  /\ txn = FALSE
  /\ snap = EmptyDb
  /\ ops = [s \in Slots |-> Idle]
  /\ now = 0
  /\ uuids = {}
  /\ minted = 0
  /\ calls = 0
  /\ reply = NoReply
  /\ solo = TRUE
  /\ budget = MaxLedgerCalls

\* Requests that overlap, enough of them for a member to join and leave.
InitDetails ==
  /\ db = EmptyDb
  /\ txn = FALSE
  /\ snap = EmptyDb
  /\ ops = [s \in Slots |-> Idle]
  /\ now = 0
  /\ uuids = {}
  /\ minted = 0
  /\ calls = 0
  /\ reply = NoReply
  /\ solo = FALSE
  /\ budget = MaxCalls

(* ------------------------------------------------------ request plumbing *)

\* A route handler takes a request into slot s (the lowest free one).
Start(s) ==
  /\ ops[s].pc = "idle"
  /\ \A r \in Slots : r < s => ops[r].pc # "idle"
  /\ solo => \A r \in Slots : ops[r].pc = "idle"
  /\ calls < budget
  /\ calls' = calls + 1

\* The promise of request o is rejected or resolved with result r (and
\* value v); ch is `changes` of the statement that just ran.
Settled(o, r, v, ch) ==
  [op |-> o.op, team |-> o.team, user |-> o.user, name |-> o.name,
   pname |-> o.pname, token |-> o.token, members |-> o.members,
   eid |-> o.eid, res |-> r, val |-> v, changes |-> ch, member |-> o.member,
   amount |-> o.amount, paid |-> o.paid, desc |-> o.desc, out |-> {},
   body |-> o.body]

\* The promise of request o is resolved with the rows a query returned.
Returned(o, rows) == [Settled(o, "ok", "", 0) EXCEPT !.out = rows]

\* Team ids a caller can name: those createTeam has returned, and any other.
KnownTeams == uuids \cup {BogusTeam}

\* Tokens a caller can present: those minted so far, and any other.
KnownTokens == {TokenOf(n) : n \in 1..minted} \cup {BogusToken}

\* An unhandled 'error' event (a statement without callback fails) or an
\* exception thrown in a callback ends the process: requests in flight are
\* lost unanswered, the open transaction is rolled back by SQLite's
\* recovery, and the server starts again on the same database file.
Crash ==
  /\ db' = IF txn THEN snap ELSE db
  /\ txn' = FALSE
  /\ snap' = EmptyDb
  /\ ops' = [s \in Slots |-> Idle]
  /\ reply' = NoReply

(* ------------------------------------------------------------ createTeam *)

TeamRow(id, name, user) ==
  [id |-> id, name |-> name, created_by |-> user,
   contribution_amount |-> IntVal(0)]

MemberRow(team, user, name, t) ==
  [team_id |-> team, user_id |-> user, name |-> name, email |-> EmailOf(user),
   has_paid |-> 0, joined_at |-> CURRENT_TIMESTAMP(t)]

\* The table without its UNIQUE(name).
TeamNameTakenNoUnique(name) == FALSE

\* UNIQUE(name) of table teams.
TeamNameTaken(name) == \E t \in db.teams : t.name = name

\* PRIMARY KEY (team_id, user_id) of table team_members.
IsMember(team, user) ==
  \E m \in db.team_members : m.team_id = team /\ m.user_id = user

\* INSERT INTO teams (id, name, created_by), then its callback.
CreateTeamInsertTeam(s, name, user, pname) ==
  /\ Start(s)
  /\ LET base == [Idle EXCEPT !.op = "createTeam", !.user = user,
                              !.name = name, !.pname = pname] IN
     IF TeamNameTaken(name)
     THEN /\ reply' = Settled(base, "DuplicateName", "", 0)
          /\ UNCHANGED <<db, uuids, ops>>
     ELSE \E id \in TeamUuids \ uuids :
            /\ uuids' = uuids \cup {id}
            /\ db' = [db EXCEPT !.teams = @ \cup {TeamRow(id, name, user)}]
            /\ ops' = [ops EXCEPT ![s] =
                         [base EXCEPT !.pc = "ct_member", !.team = id]]
            /\ reply' = NoReply
  /\ UNCHANGED <<txn, snap, now, minted, solo, budget>>

\* INSERT INTO team_members (team_id, user_id, name, email), then its callback.
CreateTeamInsertMember(s) ==
  /\ ops[s].pc = "ct_member"
  /\ LET o == ops[s] IN
     IF o.pname = Null \/ IsMember(o.team, o.user)
     THEN /\ reply' = Settled(o, "ConstraintViolation", "", 0)
          /\ UNCHANGED db
     ELSE /\ db' = [db EXCEPT !.team_members =
                      @ \cup {MemberRow(o.team, o.user, o.pname, now)}]
          /\ reply' = Settled(o, "ok", o.team, 1)
  /\ ops' = [ops EXCEPT ![s] = Idle]
  /\ UNCHANGED <<txn, snap, now, uuids, minted, calls, solo, budget>>

(* ----------------------------------------------------------- getUserTeams *)

\* SELECT t.*, (t.created_by = ?) AS is_creator, COUNT(tm.user_id)
\*   FROM teams t JOIN team_members tm ON t.id = tm.team_id
\*  WHERE t.id IN (SELECT team_id FROM team_members WHERE user_id = ?)
\*  GROUP BY t.id
getUserTeams(user) ==
  {[id |-> t.id, name |-> t.name,
    is_creator |-> IF t.created_by = user THEN 1 ELSE 0,
    member_count |->
      Cardinality({m \in db.team_members : m.team_id = t.id})] :
     t \in {x \in db.teams :
              /\ \E m \in db.team_members : m.team_id = x.id
              /\ x.id \in {m.team_id : m \in {y \in db.team_members :
                                                y.user_id = user}}}}

(* ---------------------------------------------------- generateInviteLink *)

\* The ownership test looking only for the team.
IsOwnerAnyUser(team, user) ==
  \E t \in db.teams : t.id = team

IsOwner(team, user) ==
  \E t \in db.teams : t.id = team /\ t.created_by = user

\* SELECT created_by FROM teams WHERE id = ?, then its callback.
GenerateInviteSelect(s, team, user) ==
  /\ Start(s)
  /\ LET base == [Idle EXCEPT !.op = "generateInviteLink", !.team = team,
                              !.user = user] IN
     IF ~IsOwner(team, user)
     THEN /\ reply' = Settled(base, "Unauthorized", "", 0)
          /\ UNCHANGED <<minted, ops>>
     ELSE /\ minted < MaxInvites
          /\ minted' = minted + 1
          /\ ops' = [ops EXCEPT ![s] =
                       [base EXCEPT !.pc = "gi_insert",
                                    !.token = TokenOf(minted + 1),
                                    !.expires =
                                      toISOString(now + ExpiryDays * TicksPerDay)]]
          /\ reply' = NoReply
  /\ UNCHANGED <<db, txn, snap, now, uuids, solo, budget>>

\* INSERT INTO team_invitations (id, team_id, token, expires_at).
GenerateInviteInsert(s) ==
  /\ ops[s].pc = "gi_insert"
  /\ LET o == ops[s] IN
     /\ db' = [db EXCEPT !.team_invitations =
                 @ \cup {[team_id |-> o.team, token |-> o.token,
                          expires_at |-> o.expires]}]
     /\ reply' = Settled(o, "ok", o.token, 1)
  /\ ops' = [ops EXCEPT ![s] = Idle]
  /\ UNCHANGED <<txn, snap, now, uuids, minted, calls, solo, budget>>

(* ---------------------------------------------------- joinTeamWithInvite *)

\* SELECT team_id FROM team_invitations
\*  WHERE token = ? AND expires_at > CURRENT_TIMESTAMP
ValidInvites(token, t) ==
  {i \in db.team_invitations :
     i.token = token /\ TextGreater(i.expires_at, CURRENT_TIMESTAMP(t))}

JoinSelect(s, token, user, pname) ==
  /\ Start(s)
  /\ LET base == [Idle EXCEPT !.op = "joinTeamWithInvite", !.token = token,
                              !.user = user, !.pname = pname] IN
     IF ValidInvites(token, now) = {}
     THEN /\ reply' = Settled(base, "InvalidOrExpiredInvite", "", 0)
          /\ UNCHANGED ops
     ELSE /\ \E i \in ValidInvites(token, now) :
               ops' = [ops EXCEPT ![s] =
                         [base EXCEPT !.pc = "jt_insert", !.team = i.team_id]]
          /\ reply' = NoReply
  /\ UNCHANGED <<db, txn, snap, now, uuids, minted, solo, budget>>

\* A plain INSERT into a table without its primary key.
InsertMemberNoKey(rows, team, user, name, t) ==
  rows \cup {MemberRow(team, user, name, t)}

\* INSERT OR IGNORE INTO team_members: a row that breaks the primary key or
\* a NOT NULL column is skipped without an error.
InsertOrIgnoreMember(rows, team, user, name, t) ==
  IF name = Null \/ (\E m \in rows : m.team_id = team /\ m.user_id = user)
  THEN rows
  ELSE rows \cup {MemberRow(team, user, name, t)}

JoinInsert(s) ==
  /\ ops[s].pc = "jt_insert"
  /\ LET o == ops[s]
         rows == InsertOrIgnoreMember(db.team_members, o.team, o.user,
                                      o.pname, now) IN
     /\ db' = [db EXCEPT !.team_members = rows]
     /\ reply' = Settled(o, "ok", o.team,
                         Cardinality(rows) - Cardinality(db.team_members))
  /\ ops' = [ops EXCEPT ![s] = Idle]
  /\ UNCHANGED <<txn, snap, now, uuids, minted, calls, solo, budget>>

(* ------------------------------------------------------------- leaveTeam *)

\* leaveTeam without its test of created_by.
LeaveSelectTeamNoOwnerTest(s, team, user) ==
  /\ Start(s)
  /\ ops' = [ops EXCEPT ![s] =
               [Idle EXCEPT !.op = "leaveTeam", !.pc = "lt_member",
                            !.team = team, !.user = user]]
  /\ reply' = NoReply
  /\ UNCHANGED <<db, txn, snap, now, uuids, minted, solo, budget>>

\* SELECT created_by FROM teams WHERE id = ?
LeaveSelectTeam(s, team, user) ==
  /\ Start(s)
  /\ LET base == [Idle EXCEPT !.op = "leaveTeam", !.team = team,
                              !.user = user] IN
     IF IsOwner(team, user)
     THEN /\ reply' = Settled(base, "OwnerCannotLeave", "", 0)
          /\ UNCHANGED ops
     ELSE /\ ops' = [ops EXCEPT ![s] = [base EXCEPT !.pc = "lt_member"]]
          /\ reply' = NoReply
  /\ UNCHANGED <<db, txn, snap, now, uuids, minted, solo, budget>>

\* SELECT * FROM team_members WHERE team_id = ? AND user_id = ?
LeaveSelectMember(s) ==
  /\ ops[s].pc = "lt_member"
  /\ LET o == ops[s] IN
     IF ~IsMember(o.team, o.user)
     THEN /\ reply' = Settled(o, "NotAMember", "", 0)
          /\ ops' = [ops EXCEPT ![s] = Idle]
     ELSE /\ ops' = [ops EXCEPT ![s] = [o EXCEPT !.pc = "lt_delete"]]
          /\ reply' = NoReply
  /\ UNCHANGED <<db, txn, snap, now, uuids, minted, calls, solo, budget>>

\* DELETE FROM team_members WHERE team_id = ?
DeleteMemberWholeTeam(rows, team, user) ==
  {m \in rows : m.team_id # team}

\* DELETE FROM team_members WHERE team_id = ? AND user_id = ?
DeleteMember(rows, team, user) ==
  {m \in rows : ~(m.team_id = team /\ m.user_id = user)}

LeaveDelete(s) ==
  /\ ops[s].pc = "lt_delete"
  /\ LET o == ops[s]
         rows == DeleteMember(db.team_members, o.team, o.user) IN
     /\ db' = [db EXCEPT !.team_members = rows]
     /\ reply' = Settled(o, "ok", "",
                         Cardinality(db.team_members) - Cardinality(rows))
  /\ ops' = [ops EXCEPT ![s] = Idle]
  /\ UNCHANGED <<txn, snap, now, uuids, minted, calls, solo, budget>>

(* ------------------------------------------------------------ deleteTeam *)

\* SELECT created_by FROM teams WHERE id = ?; its callback hands four
\* statements to the connection at once, in parallel mode: sqlite3 runs
\* them in no guaranteed order.
DeleteTeamSelect(s, team, user) ==
  /\ Start(s)
  /\ LET base == [Idle EXCEPT !.op = "deleteTeam", !.team = team,
                              !.user = user] IN
     IF ~IsOwner(team, user)
     THEN /\ reply' = Settled(base, "Unauthorized", "", 0)
          /\ UNCHANGED ops
     ELSE /\ ops' = [ops EXCEPT ![s] =
                       [base EXCEPT !.pc = "dt_run",
                                    !.pend = {"begin", "delm", "deli", "delt"}]]
          /\ reply' = NoReply
  /\ UNCHANGED <<db, txn, snap, now, uuids, minted, solo, budget>>

\* The request o once statement st of it has run; the request is over when
\* it has no statement left.
Ran(o, st) ==
  IF o.pend \ {st} = {} THEN Idle ELSE [o EXCEPT !.pend = @ \ {st}]

\* db.run('BEGIN TRANSACTION'), no callback.
DeleteTeamBegin(s) ==
  /\ ops[s].op = "deleteTeam" /\ "begin" \in ops[s].pend
  /\ IF txn
     THEN Crash
     ELSE /\ txn' = TRUE
          /\ snap' = db
          /\ ops' = [ops EXCEPT ![s] = Ran(@, "begin")]
          /\ reply' = NoReply
          /\ UNCHANGED db
  /\ UNCHANGED <<now, uuids, minted, calls, solo, budget>>

\* db.run('DELETE FROM team_members WHERE team_id = ?'), no callback.
DeleteTeamMembers(s) ==
  /\ ops[s].op = "deleteTeam" /\ "delm" \in ops[s].pend
  /\ db' = [db EXCEPT !.team_members =
              {m \in @ : m.team_id # ops[s].team}]
  /\ ops' = [ops EXCEPT ![s] = Ran(@, "delm")]
  /\ reply' = NoReply
  /\ UNCHANGED <<txn, snap, now, uuids, minted, calls, solo, budget>>

\* db.run('DELETE FROM team_invitations WHERE team_id = ?'), no callback.
DeleteTeamInvitations(s) ==
  /\ ops[s].op = "deleteTeam" /\ "deli" \in ops[s].pend
  /\ db' = [db EXCEPT !.team_invitations =
              {i \in @ : i.team_id # ops[s].team}]
  /\ ops' = [ops EXCEPT ![s] = Ran(@, "deli")]
  /\ reply' = NoReply
  /\ UNCHANGED <<txn, snap, now, uuids, minted, calls, solo, budget>>

\* DELETE FROM teams WHERE id = ?.  Foreign keys are not enforced on this
\* connection (no PRAGMA foreign_keys = ON is ever issued), so the ON DELETE
\* CASCADE clauses of team_expenses and expense_members do nothing and the
\* statement cannot fail on a reference; its callback issues COMMIT and
\* resolves.
DeleteTeamRow(s) ==
  /\ ops[s].op = "deleteTeam" /\ "delt" \in ops[s].pend
  /\ LET rows == {t \in db.teams : t.id # ops[s].team} IN
     /\ db' = [db EXCEPT !.teams = rows]
     /\ reply' = Settled(ops[s], "ok", "",
                         Cardinality(db.teams) - Cardinality(rows))
  /\ ops' = [ops EXCEPT ![s] =
               [@ EXCEPT !.pend = (@ \ {"delt"}) \cup {"commit"}]]
  /\ UNCHANGED <<txn, snap, now, uuids, minted, calls, solo, budget>>

\* db.run('COMMIT'), no callback.
DeleteTeamCommit(s) ==
  /\ ops[s].op = "deleteTeam" /\ "commit" \in ops[s].pend
  /\ IF ~txn
     THEN Crash
     ELSE /\ txn' = FALSE
          /\ snap' = EmptyDb
          /\ ops' = [ops EXCEPT ![s] = Ran(@, "commit")]
          /\ reply' = NoReply
          /\ UNCHANGED db
  /\ UNCHANGED <<now, uuids, minted, calls, solo, budget>>

(* ------------------------------------------- values written into SQL text *)

Digits == <<"0", "1", "2", "3", "4", "5", "6", "7", "8", "9">>

IsDigit(c) == \E i \in DOMAIN Digits : Digits[i] = c

DigitVal(c) == (CHOOSE i \in DOMAIN Digits : Digits[i] = c) - 1

\* The characters of the texts the model uses.
Chars(x) ==
  CASE x = "a-1" -> <<"a", "-", "1">>
    [] x = "4-1" -> <<"4", "-", "1">>
    [] x = "5"   -> <<"5">>
    [] x = "1"   -> <<"1">>
    [] x = "2"   -> <<"2">>
    [] x = "u1"  -> <<"u", "1">>
    [] x = "u2"  -> <<"u", "2">>

\* `${expenseId}` for the small positive integers lastID takes here.
NumberChars(n) == <<Digits[n + 1]>>

\* A value interpolated into the VALUES list without quotes is read back by
\* SQLite as an expression: digits are an integer literal, '-' subtracts
\* (or negates, in front), a letter starts a column name that does not exist
\* and "--" starts a comment that swallows the closing parenthesis.
RECURSIVE SqlExprFrom(_, _, _, _, _, _)
SqlExprFrom(cs, i, total, sign, cur, have) ==
  IF i > Len(cs)
  THEN [ok |-> have, n |-> total + sign * cur]
  ELSE IF IsDigit(cs[i])
  THEN SqlExprFrom(cs, i + 1, total, sign, cur * 10 + DigitVal(cs[i]), TRUE)
  ELSE IF cs[i] = "-" /\ (have \/ i = 1)
  THEN SqlExprFrom(cs, i + 1, total + sign * cur, -1, 0, FALSE)
  ELSE [ok |-> FALSE, n |-> 0]

SqlExpr(cs) == SqlExprFrom(cs, 1, 0, 1, 0, FALSE)

\* A text bound with ? to a column of INTEGER affinity is stored as an
\* integer when it reads as one and as the text otherwise.
IntegerAffinity(x) ==
  LET cs == Chars(x)
      body == IF cs # <<>> /\ cs[1] = "-" THEN Tail(cs) ELSE cs IN
  IF body # <<>> /\ \A i \in DOMAIN body : IsDigit(body[i])
  THEN IntVal(SqlExpr(cs).n)
  ELSE TextVal(x)

(* --------------------------------------------------------- createExpense *)

\* req.body.memberIds of POST /api/teams/:teamId/expenses.
MemberIdLists ==
  {<<>>, <<"1">>, <<"1", "2">>, <<"1", "1">>, <<"u1">>, <<"1", "u1">>}

\* No statement of another request is running or waiting: a statement
\* issued inside db.serialize starts only then.
Exclusive(s) == \A r \in Slots \ {s} : ops[r].pc = "idle"

ExpenseRow(id, team) ==
  [id |-> id, team_id |-> IntegerAffinity(team), description |-> "lunch",
   amount |-> 30, expense_date |-> 1]

\* db.serialize: BEGIN TRANSACTION (no callback), then INSERT INTO
\* team_expenses and its callback.
CreateExpenseBegin(s, user, team, members) ==
  /\ Start(s)
  /\ Exclusive(s)
  /\ db.seq < MaxExpenses
  /\ IF txn
     THEN Crash
     ELSE /\ txn' = TRUE
          /\ snap' = db
          /\ db' = [db EXCEPT !.seq = @ + 1,
                              !.team_expenses =
                                @ \cup {ExpenseRow(db.seq + 1, team)}]
          /\ ops' = [ops EXCEPT ![s] =
                       [Idle EXCEPT !.op = "createExpense",
                                    !.pc = "ce_members", !.team = team,
                                    !.user = user, !.members = members,
                                    !.eid = db.seq + 1]]
          /\ reply' = NoReply
  /\ UNCHANGED <<now, uuids, minted, solo, budget>>

\* The rows of `(${expenseId}, ${userId}, ${teamId})` joined by commas, as
\* SQLite reads them; ok is FALSE when the text is no statement.
ParticipantValues(eid, members, team) ==
  LET e == SqlExpr(NumberChars(eid))
      t == SqlExpr(Chars(team))
      u == [i \in DOMAIN members |-> SqlExpr(Chars(members[i]))] IN
  [ok |-> /\ members # <<>>
          /\ e.ok /\ t.ok
          /\ \A i \in DOMAIN members : u[i].ok,
   rows |-> [i \in DOMAIN members |->
               [expense_id |-> e.n, user_id |-> u[i].n, team_id |-> t.n]]]

\* PRIMARY KEY (expense_id, user_id) of expense_members, over the rows of
\* the table and of the statement.
ParticipantKeyClash(table, rows) ==
  \/ \E i, j \in DOMAIN rows :
       /\ i # j
       /\ rows[i].expense_id = rows[j].expense_id
       /\ rows[i].user_id = rows[j].user_id
  \/ \E i \in DOMAIN rows : \E r \in table :
       r.expense_id = rows[i].expense_id /\ r.user_id = rows[i].user_id

\* INSERT INTO expense_members ... VALUES <text>, then its callback, which
\* issues ROLLBACK and rejects, or issues COMMIT and resolves.
CreateExpenseInsertMembers(s) ==
  /\ ops[s].pc = "ce_members"
  /\ LET o == ops[s]
         v == ParticipantValues(o.eid, o.members, o.team) IN
     IF ~v.ok \/ ParticipantKeyClash(db.expense_members, v.rows)
     THEN /\ ops' = [ops EXCEPT ![s] =
                       [o EXCEPT !.pc = "ce_end", !.pend = {"rollback"}]]
          /\ reply' = Settled(o, "SqlError", "", 0)
          /\ UNCHANGED db
     ELSE /\ db' = [db EXCEPT !.expense_members =
                      @ \cup {v.rows[i] : i \in DOMAIN v.rows}]
          /\ ops' = [ops EXCEPT ![s] =
                       [o EXCEPT !.pc = "ce_end", !.pend = {"commit"}]]
          /\ reply' = Settled(o, "ok", "", Len(v.rows))
  /\ UNCHANGED <<txn, snap, now, uuids, minted, calls, solo, budget>>

\* db.run('COMMIT'), no callback.
CreateExpenseCommit(s) ==
  /\ ops[s].pc = "ce_end" /\ "commit" \in ops[s].pend
  /\ IF ~txn
     THEN Crash
     ELSE /\ txn' = FALSE
          /\ snap' = EmptyDb
          /\ ops' = [ops EXCEPT ![s] = Ran(@, "commit")]
          /\ reply' = NoReply
          /\ UNCHANGED db
  /\ UNCHANGED <<now, uuids, minted, calls, solo, budget>>

\* COMMIT where ROLLBACK stands.
CreateExpenseRollbackCommits(s) ==
  /\ ops[s].pc = "ce_end" /\ "rollback" \in ops[s].pend
  /\ IF ~txn
     THEN Crash
     ELSE /\ txn' = FALSE
          /\ snap' = EmptyDb
          /\ ops' = [ops EXCEPT ![s] = Ran(@, "rollback")]
          /\ reply' = NoReply
          /\ UNCHANGED db
  /\ UNCHANGED <<now, uuids, minted, calls, solo, budget>>

\* db.run('ROLLBACK'), no callback.
CreateExpenseRollback(s) ==
  /\ ops[s].pc = "ce_end" /\ "rollback" \in ops[s].pend
  /\ IF ~txn
     THEN Crash
     ELSE /\ txn' = FALSE
          /\ snap' = EmptyDb
          /\ db' = snap
          /\ ops' = [ops EXCEPT ![s] = Ran(@, "rollback")]
          /\ reply' = NoReply
  /\ UNCHANGED <<now, uuids, minted, calls, solo, budget>>

(* --------------------------------------------------------- updateExpense *)

\* req.params.expenseId of the expense routes.
ExpenseIds == 1..MaxExpenses

\* `${row.team_id}`: the characters JavaScript writes for a column value.
ValueChars(v) == IF v.int THEN NumberChars(v.n) ELSE Chars(v.s)

\* db.serialize: BEGIN TRANSACTION (no callback), then UPDATE team_expenses
\* SET description = ?, amount = ?, expense_date = ? WHERE id = ?.
UpdateExpenseBegin(s, user, team, eid, members) ==
  /\ Start(s)
  /\ Exclusive(s)
  /\ IF txn
     THEN Crash
     ELSE /\ txn' = TRUE
          /\ snap' = db
          /\ db' = [db EXCEPT !.team_expenses =
                      {IF e.id = eid
                       THEN [e EXCEPT !.description = "dinner", !.amount = 40,
                                      !.expense_date = 2]
                       ELSE e : e \in @}]
          /\ ops' = [ops EXCEPT ![s] =
                       [Idle EXCEPT !.op = "updateExpense", !.pc = "ue_delete",
                                    !.team = team, !.user = user,
                                    !.members = members, !.eid = eid,
                                    !.desc = "dinner"]]
          /\ reply' = NoReply
  /\ UNCHANGED <<now, uuids, minted, solo, budget>>

\* DELETE FROM expense_members, with no WHERE.
UpdateExpenseDeleteAll(s) ==
  /\ ops[s].pc = "ue_delete"
  /\ db' = [db EXCEPT !.expense_members = {}]
  /\ ops' = [ops EXCEPT ![s] = [@ EXCEPT !.pc = "ue_select"]]
  /\ reply' = NoReply
  /\ UNCHANGED <<txn, snap, now, uuids, minted, calls, solo, budget>>

\* DELETE FROM expense_members WHERE expense_id = ?
UpdateExpenseDelete(s) ==
  /\ ops[s].pc = "ue_delete"
  /\ db' = [db EXCEPT !.expense_members =
              {p \in @ : p.expense_id # ops[s].eid}]
  /\ ops' = [ops EXCEPT ![s] = [@ EXCEPT !.pc = "ue_select"]]
  /\ reply' = NoReply
  /\ UNCHANGED <<txn, snap, now, uuids, minted, calls, solo, budget>>

\* SELECT team_id FROM team_expenses WHERE id = ?; with no such row the
\* callback reads row.team_id of undefined for the first of memberIds and
\* throws (with no memberIds it reads nothing).
UpdateExpenseSelect(s) ==
  /\ ops[s].pc = "ue_select"
  /\ LET rows == {e \in db.team_expenses : e.id = ops[s].eid} IN
     IF rows = {} /\ ops[s].members # <<>>
     THEN Crash
     ELSE /\ \E v \in {e.team_id : e \in rows}
                       \cup {x \in {NullVal} : rows = {}} :
               ops' = [ops EXCEPT ![s] =
                         [@ EXCEPT !.pc = "ue_insert", !.row = v]]
          /\ reply' = NoReply
          /\ UNCHANGED <<db, txn, snap>>
  /\ UNCHANGED <<now, uuids, minted, calls, solo, budget>>

\* The rows of `(${expenseId}, ${userId}, ${row.team_id})` joined by commas.
ReplacementValues(eid, members, team_id) ==
  LET e == SqlExpr(NumberChars(eid))
      t == SqlExpr(ValueChars(team_id))
      u == [i \in DOMAIN members |-> SqlExpr(Chars(members[i]))] IN
  [ok |-> /\ members # <<>>
          /\ e.ok /\ t.ok
          /\ \A i \in DOMAIN members : u[i].ok,
   rows |-> [i \in DOMAIN members |->
               [expense_id |-> e.n, user_id |-> u[i].n, team_id |-> t.n]]]

\* INSERT INTO expense_members ... VALUES <text>, then its callback, which
\* issues ROLLBACK and rejects, or issues COMMIT and resolves.
UpdateExpenseInsert(s) ==
  /\ ops[s].pc = "ue_insert"
  /\ LET o == ops[s]
         v == ReplacementValues(o.eid, o.members, o.row) IN
     IF ~v.ok \/ ParticipantKeyClash(db.expense_members, v.rows)
     THEN /\ ops' = [ops EXCEPT ![s] =
                       [o EXCEPT !.pc = "ue_end", !.pend = {"rollback"}]]
          /\ reply' = Settled(o, "SqlError", "", 0)
          /\ UNCHANGED db
     ELSE /\ db' = [db EXCEPT !.expense_members =
                      @ \cup {v.rows[i] : i \in DOMAIN v.rows}]
          /\ ops' = [ops EXCEPT ![s] =
                       [o EXCEPT !.pc = "ue_end", !.pend = {"commit"}]]
          /\ reply' = Settled(o, "ok", "", Len(v.rows))
  /\ UNCHANGED <<txn, snap, now, uuids, minted, calls, solo, budget>>

\* db.run('COMMIT'), no callback.
UpdateExpenseCommit(s) ==
  /\ ops[s].pc = "ue_end" /\ "commit" \in ops[s].pend
  /\ IF ~txn
     THEN Crash
     ELSE /\ txn' = FALSE
          /\ snap' = EmptyDb
          /\ ops' = [ops EXCEPT ![s] = Ran(@, "commit")]
          /\ reply' = NoReply
          /\ UNCHANGED db
  /\ UNCHANGED <<now, uuids, minted, calls, solo, budget>>

\* db.run('ROLLBACK'), no callback.
UpdateExpenseRollback(s) ==
  /\ ops[s].pc = "ue_end" /\ "rollback" \in ops[s].pend
  /\ IF ~txn
     THEN Crash
     ELSE /\ txn' = FALSE
          /\ snap' = EmptyDb
          /\ db' = snap
          /\ ops' = [ops EXCEPT ![s] = Ran(@, "rollback")]
          /\ reply' = NoReply
  /\ UNCHANGED <<now, uuids, minted, calls, solo, budget>>

(* --------------------------------------------------------- deleteExpense *)

\* DELETE FROM team_expenses WHERE id = ?.  Foreign keys are not enforced on
\* this connection, so no row of expense_members goes with it.
DeleteExpense(s, user, team, eid) ==
  /\ Start(s)
  /\ LET rows == {e \in db.team_expenses : e.id # eid}
         base == [Idle EXCEPT !.op = "deleteExpense", !.team = team,
                              !.user = user, !.eid = eid] IN
     /\ db' = [db EXCEPT !.team_expenses = rows]
     /\ reply' = Settled(base, "ok", "",
                         Cardinality(db.team_expenses) - Cardinality(rows))
  /\ UNCHANGED <<txn, snap, ops, now, uuids, minted, solo, budget>>

(* ------------------------------------------------------------ getExpense *)

\* The rows of table users.  db.js neither creates nor fills such a table.
UsersRows == {}

\* SELECT te.*, GROUP_CONCAT(u.id) AS member_ids, ...
\*   FROM team_expenses te
\*   LEFT JOIN expense_members em ON te.id = em.expense_id
\*   LEFT JOIN users u ON em.user_id = u.id
\*  WHERE te.id = ? GROUP BY te.id
\* and member_ids.split(',').map(Number) of its callback.
ExpenseWithMembers(eid) ==
  {[id |-> e.id, team_id |-> e.team_id, description |-> e.description,
    amount |-> e.amount, expense_date |-> e.expense_date,
    member_ids |->
      {p.user_id : p \in {x \in db.expense_members :
                            /\ x.expense_id = e.id
                            /\ \E u \in UsersRows : u.id = x.user_id}}] :
     e \in {x \in db.team_expenses : x.id = eid}}

\* GET /api/teams/:teamId/expenses/:expenseId.  The statement names table
\* users: preparing it fails when the database has no such table.
GetExpense(s, user, team, eid) ==
  /\ Start(s)
  /\ LET base == [Idle EXCEPT !.op = "getExpense", !.team = team,
                              !.user = user, !.eid = eid]
         rows == ExpenseWithMembers(eid) IN
     IF ~({"team_expenses", "expense_members", "users"} \subseteq Tables)
     THEN reply' = Settled(base, "SqlError", "", 0)
     ELSE IF \E r \in rows : ~r.team_id.int /\ r.team_id.s = team
     THEN reply' = Returned(base, rows)
     ELSE reply' = Settled(base, "NotFound", "", 0)
  /\ UNCHANGED <<db, txn, snap, ops, now, uuids, minted, solo, budget>>

(* ---------------------------------------------------------- the ledger *)

\* A JSON value of a request body: its type and the characters it is
\* written with (without the quotes of a string).
JsonNumber(cs) == [type |-> "number", text |-> cs]

JsonString(cs) == [type |-> "string", text |-> cs]

JsonBoolean(cs) == [type |-> "boolean", text |-> cs]

\* req.body.amount of POST /api/teams/:teamId/contribution.
AmountBodies ==
  {JsonNumber(<<"1", "0">>), JsonNumber(<<"-", "5">>), JsonString(<<"7">>),
   JsonString(<<"a", "b", "c">>), JsonBoolean(<<"t", "r", "u", "e">>)}

\* req.body.hasPaid of POST /api/teams/:teamId/members/:memberId/payment.
HasPaidBodies ==
  {JsonBoolean(<<"t", "r", "u", "e">>), JsonBoolean(<<"f", "a", "l", "s", "e">>)}

\* A JavaScript number: NaN, or the integer n.
NaN == [nan |-> TRUE, n |-> 0]

Num(n) == [nan |-> FALSE, n |-> n]

\* The longest run of decimal digits of cs from position i on: where it
\* ends and what it is worth.
RECURSIVE DigitsPrefix(_, _, _)
DigitsPrefix(cs, i, acc) ==
  IF i <= Len(cs) /\ IsDigit(cs[i])
  THEN DigitsPrefix(cs, i + 1, acc * 10 + DigitVal(cs[i]))
  ELSE [end |-> i, n |-> acc]

\* A sign, then digits: all of cs (whole) or as much of it as reads so.
SignedDigits(cs, whole) ==
  LET signed == cs # <<>> /\ cs[1] \in {"-", "+"}
      from == IF signed THEN 2 ELSE 1
      d == DigitsPrefix(cs, from, 0) IN
  IF d.end = from \/ (whole /\ d.end # Len(cs) + 1)
  THEN NaN
  ELSE Num(IF signed /\ cs[1] = "-" THEN 0 - d.n ELSE d.n)

\* Number(a), the conversion isNaN and <= apply to their operand: true is
\* 1 and false 0, undefined is NaN, the empty string is 0 and any other
\* string must be a numeric literal from its first character to its last.
ToNumber(a) ==
  CASE a.type = "number" -> SignedDigits(a.text, TRUE)
    [] a.type = "boolean" -> Num(IF a.text[1] = "t" THEN 1 ELSE 0)
    [] a.type = "string" ->
         IF a.text = <<>> THEN Num(0) ELSE SignedDigits(a.text, TRUE)
    [] OTHER -> NaN

\* String(a), the conversion parseFloat applies to its operand.
StringOf(a) ==
  IF a.type = "undefined"
  THEN <<"u", "n", "d", "e", "f", "i", "n", "e", "d">>
  ELSE a.text

\* !a
Falsy(a) ==
  CASE a.type = "undefined" -> TRUE
    [] a.type = "boolean" -> a.text[1] = "f"
    [] a.type = "string" -> a.text = <<>>
    [] OTHER -> ToNumber(a).nan \/ ToNumber(a).n = 0

isNaN(a) == ToNumber(a).nan

\* a <= 0, which is false when a converts to NaN.
NotPositive(a) == ~ToNumber(a).nan /\ ToNumber(a).n <= 0

\* parseFloat(a): the number the text of a begins with, NaN if it begins
\* with none.
parseFloat(a) == SignedDigits(StringOf(a), FALSE)

\* A number bound to a ? parameter: SQLite stores NULL for NaN.
BindNumber(x) == IF x.nan THEN NullVal ELSE IntVal(x.n)

\* POST /api/teams/:teamId/contribution: the check of req.body.amount, then
\* setContributionAmount's SELECT created_by FROM teams WHERE id = ? and its
\* callback.
SetContributionAmountSelect(s, team, user, body) ==
  /\ Start(s)
  /\ LET base == [Idle EXCEPT !.op = "setContributionAmount", !.team = team,
                              !.user = user, !.body = body] IN
     IF Falsy(body) \/ isNaN(body) \/ NotPositive(body)
     THEN reply' = Settled(base, "InvalidAmount", "", 0) /\ ops' = ops
     ELSE IF ~IsOwner(team, user)
     THEN reply' = Settled(base, "Unauthorized", "", 0) /\ ops' = ops
     ELSE /\ ops' = [ops EXCEPT ![s] =
                       [base EXCEPT !.pc = "sc_update",
                                    !.amount = BindNumber(parseFloat(body))]]
          /\ reply' = NoReply
  /\ UNCHANGED <<db, txn, snap, now, uuids, minted, solo, budget>>

\* UPDATE teams SET contribution_amount = ? WHERE id = ?
SetContributionAmountUpdate(s) ==
  /\ ops[s].pc = "sc_update"
  /\ LET o == ops[s]
         hit == {t \in db.teams : t.id = o.team} IN
     /\ db' = [db EXCEPT !.teams =
                 {IF t \in hit THEN [t EXCEPT !.contribution_amount = o.amount]
                               ELSE t : t \in db.teams}]
     /\ reply' = Settled(o, "ok", "", Cardinality(hit))
  /\ ops' = [ops EXCEPT ![s] = Idle]
  /\ UNCHANGED <<txn, snap, now, uuids, minted, calls, solo, budget>>

\* updatePaymentStatus without the test of created_by.
UpdatePaymentStatusSelectAnyone(s, team, member, hasPaid, user) ==
  /\ Start(s)
  /\ ops' = [ops EXCEPT ![s] =
               [Idle EXCEPT !.op = "updatePaymentStatus", !.team = team,
                            !.user = user, !.member = member,
                            !.body = hasPaid, !.pc = "up_update",
                            !.paid = IF Falsy(hasPaid) THEN 0 ELSE 1]]
  /\ reply' = NoReply
  /\ UNCHANGED <<db, txn, snap, now, uuids, minted, solo, budget>>

\* POST /api/teams/:teamId/members/:memberId/payment: updatePaymentStatus's
\* SELECT created_by FROM teams WHERE id = ? and its callback.
UpdatePaymentStatusSelect(s, team, member, hasPaid, user) ==
  /\ Start(s)
  /\ LET base == [Idle EXCEPT !.op = "updatePaymentStatus", !.team = team,
                              !.user = user, !.member = member,
                              !.body = hasPaid] IN
     IF ~IsOwner(team, user)
     THEN reply' = Settled(base, "Unauthorized", "", 0) /\ ops' = ops
     ELSE /\ ops' = [ops EXCEPT ![s] =
                       [base EXCEPT !.pc = "up_update",
                                    !.paid = IF Falsy(hasPaid) THEN 0 ELSE 1]]
          /\ reply' = NoReply
  /\ UNCHANGED <<db, txn, snap, now, uuids, minted, solo, budget>>

\* The UPDATE without "AND user_id = ?".
UpdatePaymentStatusUpdateWholeTeam(s) ==
  /\ ops[s].pc = "up_update"
  /\ LET o == ops[s]
         hit == {m \in db.team_members : m.team_id = o.team} IN
     /\ db' = [db EXCEPT !.team_members =
                 {IF m \in hit THEN [m EXCEPT !.has_paid = o.paid] ELSE m :
                    m \in db.team_members}]
     /\ reply' = Settled(o, "ok", "", Cardinality(hit))
  /\ ops' = [ops EXCEPT ![s] = Idle]
  /\ UNCHANGED <<txn, snap, now, uuids, minted, calls, solo, budget>>

\* UPDATE team_members SET has_paid = ? WHERE team_id = ? AND user_id = ?
UpdatePaymentStatusUpdate(s) ==
  /\ ops[s].pc = "up_update"
  /\ LET o == ops[s]
         hit == {m \in db.team_members :
                   m.team_id = o.team /\ m.user_id = o.member} IN
     /\ db' = [db EXCEPT !.team_members =
                 {IF m \in hit THEN [m EXCEPT !.has_paid = o.paid] ELSE m :
                    m \in db.team_members}]
     /\ reply' = Settled(o, "ok", "", Cardinality(hit))
  /\ ops' = [ops EXCEPT ![s] = Idle]
  /\ UNCHANGED <<txn, snap, now, uuids, minted, calls, solo, budget>>

\* FROM teams t LEFT JOIN team_members tm ON t.id = tm.team_id WHERE t.id = ?
\* A team without members is joined to one row of NULLs.
LeftJoinMembers(d, team) ==
  LET ms == {m \in d.team_members : m.team_id = team} IN
  {[t |-> t, null |-> FALSE, tm |-> m] :
     t \in {x \in d.teams : x.id = team}, m \in ms}
    \cup {[t |-> t, null |-> TRUE, tm |-> MemberRow(Null, Null, Null, 0)] :
            t \in {x \in d.teams : x.id = team /\ ms = {}}}

\* COUNT(tm.user_id): the joined rows whose user_id is not NULL.
CountUserId(rows) == Cardinality({j \in rows : ~j.null})

\* The CASE that counts everybody.
PaidCaseAlways(j) == 1

\* CASE WHEN tm.has_paid = 1 THEN 1 ELSE 0 END
PaidCase(j) == IF ~j.null /\ j.tm.has_paid = 1 THEN 1 ELSE 0

\* SUM(CASE ...) over the joined rows of one team.
RECURSIVE SumPaidCase(_)
SumPaidCase(rows) ==
  IF rows = {} THEN 0
  ELSE LET j == CHOOSE x \in rows : TRUE IN
       PaidCase(j) + SumPaidCase(rows \ {j})

\* t.contribution_amount * n, NULL when the amount is NULL.
Times(v, n) == IF v.int THEN IntVal(v.n * n) ELSE NullVal

\* The row getTeamContributionDetails resolves with (none: undefined).
getTeamContributionDetails(d, team) ==
  LET rows == LeftJoinMembers(d, team) IN
  {[id |-> t.id, contribution_amount |-> t.contribution_amount,
    total_members |-> CountUserId(rows),
    paid_members |-> SumPaidCase(rows),
    total_amount |-> Times(t.contribution_amount, CountUserId(rows)),
    collected_amount |-> Times(t.contribution_amount, SumPaidCase(rows))] :
     t \in {x \in d.teams : x.id = team}}

\* v || 0 for a number or null v.
OrZero(v) == IF v.int THEN v.n ELSE 0

\* The contribution object getTeamDetails resolves with.
getTeamDetails(d, team) ==
  LET rows == LeftJoinMembers(d, team) IN
  {[id |-> t.id, total_members |-> CountUserId(rows),
    contribution |->
      [amount |-> OrZero(t.contribution_amount),
       totalAmount |->
         OrZero(Times(t.contribution_amount, CountUserId(rows))),
       collectedAmount |->
         OrZero(Times(t.contribution_amount, SumPaidCase(rows))),
       paidMembers |-> SumPaidCase(rows)]] :
     t \in {x \in d.teams : x.id = team}}

(* ----------------------------------------------------------- the routes *)

\* req.session.user of a request that carries no authenticated session.
NoSession == "anonymous"

Sessions == Users \cup {NoSession}

\* GET /api/teams: getUserTeams.
GetTeams(s, user) ==
  /\ Start(s)
  /\ reply' = Returned([Idle EXCEPT !.op = "getUserTeams", !.user = user],
                       getUserTeams(user))
  /\ UNCHANGED <<db, txn, snap, ops, now, uuids, minted, solo, budget>>

\* GET /api/teams/:teamId/contribution: getTeamContributionDetails, which
\* resolves with undefined when there is no such team.
GetContribution(s, user, team) ==
  /\ Start(s)
  /\ reply' = Returned([Idle EXCEPT !.op = "getTeamContributionDetails",
                                    !.user = user, !.team = team],
                       getTeamContributionDetails(db, team))
  /\ UNCHANGED <<db, txn, snap, ops, now, uuids, minted, solo, budget>>

\* GET /api/teams/:teamId/members: the first query of getTeamDetails,
\* SELECT t.*, COUNT(tm.user_id) AS total_members ... GROUP BY t.id, and its
\* callback, which rejects when there is no such team.
GetMembers(s, user, team) ==
  /\ Start(s)
  /\ LET base == [Idle EXCEPT !.op = "getTeamDetails", !.user = user,
                              !.team = team]
         rows == LeftJoinMembers(db, team) IN
     IF rows = {}
     THEN reply' = Settled(base, "NotFound", "", 0) /\ ops' = ops
     ELSE /\ \E t \in {j.t : j \in rows} :
               ops' = [ops EXCEPT ![s] =
                         [base EXCEPT
                            !.pc = "td_contribution",
                            !.got = [NoDetails EXCEPT
                                       !.total_members = CountUserId(rows),
                                       !.amount =
                                         OrZero(t.contribution_amount)]]]
          /\ reply' = NoReply
  /\ UNCHANGED <<db, txn, snap, now, uuids, minted, solo, budget>>

\* The second query of getTeamDetails: the sums over the team's rows as they
\* are now; one row of NULLs when the team is gone.
GetTeamDetailsContribution(s) ==
  /\ ops[s].pc = "td_contribution"
  /\ LET rows == LeftJoinMembers(db, ops[s].team)
         a == IF rows = {} THEN NullVal
              ELSE (CHOOSE j \in rows : TRUE).t.contribution_amount IN
     ops' = [ops EXCEPT ![s] =
               [@ EXCEPT
                  !.pc = "td_members",
                  !.got = [@ EXCEPT
                             !.totalAmount =
                               OrZero(Times(a, CountUserId(rows))),
                             !.collectedAmount =
                               OrZero(Times(a, SumPaidCase(rows))),
                             !.paidMembers = SumPaidCase(rows)]]]
  /\ reply' = NoReply
  /\ UNCHANGED <<db, txn, snap, now, uuids, minted, calls, solo, budget>>

\* The third query of getTeamDetails, SELECT user_id, name, email, joined_at,
\* has_paid FROM team_members WHERE team_id = ?, and the object its callback
\* resolves with.
GetTeamDetailsMembers(s) ==
  /\ ops[s].pc = "td_members"
  /\ LET o == ops[s]
         members == {[user_id |-> m.user_id, name |-> m.name,
                      email |-> m.email, joined_at |-> m.joined_at,
                      has_paid |-> m.has_paid] :
                       m \in {x \in db.team_members : x.team_id = o.team}} IN
     reply' = Returned(o, {[id |-> o.team,
                            total_members |-> o.got.total_members,
                            members |-> members,
                            contribution |->
                              [amount |-> o.got.amount,
                               totalAmount |-> o.got.totalAmount,
                               collectedAmount |-> o.got.collectedAmount,
                               paidMembers |-> o.got.paidMembers]]})
  /\ ops' = [ops EXCEPT ![s] = Idle]
  /\ UNCHANGED <<db, txn, snap, now, uuids, minted, calls, solo, budget>>

\* GET /api/teams/:teamId/expenses: getTeamExpenses, whose statement names
\* table users as getExpense's does.
GetExpenses(s, user, team) ==
  /\ Start(s)
  /\ LET base == [Idle EXCEPT !.op = "getTeamExpenses", !.user = user,
                              !.team = team] IN
     IF ~({"team_expenses", "expense_members", "users"} \subseteq Tables)
     THEN reply' = Settled(base, "SqlError", "", 0)
     ELSE reply' = Returned(base,
                     UNION {ExpenseWithMembers(e.id) :
                              e \in {x \in db.team_expenses :
                                       x.team_id = IntegerAffinity(team)}})
  /\ UNCHANGED <<db, txn, snap, ops, now, uuids, minted, solo, budget>>

\* The GET routes under /api/teams in the order index.js registers them:
\* the segments of each path and the operation its handler calls.
GetRoutes ==
  <<[path |-> <<"api", "teams">>, op |-> "getUserTeams"],
    [path |-> <<"api", "teams", ":teamId", "contribution">>,
     op |-> "getTeamContributionDetails"],
    [path |-> <<"api", "teams", ":teamId", "members">>,
     op |-> "getTeamDetails"],
    [path |-> <<"api", "teams", ":teamId", "expenses">>,
     op |-> "getTeamExpenses"],
    [path |-> <<"api", "teams", ":teamId", "expenses", ":expenseId">>,
     op |-> "getExpense"],
    [path |-> <<"api", "teams", ":teamId", "expenses", "summary">>,
     op |-> "getTeamExpensesSummary"]>>

\* Whether a route path matches a request path: segment by segment, a
\* parameter matching any segment.
Matches(pattern, path) ==
  /\ Len(pattern) = Len(path)
  /\ \A i \in DOMAIN pattern :
       pattern[i] \in {":teamId", ":expenseId"} \/ pattern[i] = path[i]

\* The operation of the first registered route that matches.
Dispatch(path) ==
  LET hits == {i \in DOMAIN GetRoutes : Matches(GetRoutes[i].path, path)}
      first == CHOOSE i \in hits : \A j \in hits : i <= j IN
  GetRoutes[first].op

\* req.params.expenseId when the last segment is "summary": an id that no
\* row of team_expenses has.
SummaryId == 0

\* SELECT COUNT(*), SUM(amount), MIN(expense_date), MAX(expense_date)
\*   FROM team_expenses WHERE team_id = ?
RECURSIVE SumAmount(_)
SumAmount(rows) ==
  IF rows = {} THEN 0
  ELSE LET e == CHOOSE x \in rows : TRUE IN e.amount + SumAmount(rows \ {e})

getTeamExpensesSummary(d, team) ==
  LET rows == {e \in d.team_expenses : e.team_id = IntegerAffinity(team)}
      dates == {e.expense_date : e \in rows} IN
  [total_expenses |-> Cardinality(rows),
   total_amount |-> IF rows = {} THEN NullVal ELSE IntVal(SumAmount(rows)),
   first_expense_date |->
     IF rows = {} THEN NullVal
     ELSE IntVal(CHOOSE x \in dates : \A y \in dates : x <= y),
   last_expense_date |->
     IF rows = {} THEN NullVal
     ELSE IntVal(CHOOSE x \in dates : \A y \in dates : x >= y)]

\* GET /api/teams/:teamId/expenses/summary, served by the handler of the
\* first route its path matches.
GetSummary(s, user, team) ==
  IF Dispatch(<<"api", "teams", team, "expenses", "summary">>)
       = "getTeamExpensesSummary"
  THEN /\ Start(s)
       /\ reply' = Returned([Idle EXCEPT !.op = "getTeamExpensesSummary",
                                         !.user = user, !.team = team,
                                         !.eid = SummaryId],
                            {getTeamExpensesSummary(db, team)})
       /\ UNCHANGED <<db, txn, snap, ops, now, uuids, minted, solo, budget>>
  ELSE GetExpense(s, user, team, SummaryId)

\* The handler answers a request that has no session: 401, or for the
\* invitation link a redirect to the front page.
Unauthenticated(s, route, token) ==
  /\ Start(s)
  /\ reply' = [NoReply EXCEPT !.op = route, !.user = NoSession,
                              !.token = token,
                              !.res = IF route = "joinTeamWithInvite"
                                      THEN "redirect" ELSE "401"]
  /\ UNCHANGED <<db, txn, snap, ops, now, uuids, minted, solo, budget>>

\* The handler without its first statement.
AuthenticatedNoCheck(s, user, route, token, Handler) == Handler

\* if (!req.session.user) return ...; then the rest of the handler.
Authenticated(s, user, route, token, Handler) ==
  IF user = NoSession THEN Unauthenticated(s, route, token) ELSE Handler

(* ------------------------------------------------------ the environment *)

\* Time passes between two requests.  Instants are counted from the first
\* invitation: until one exists no statement compares two dates.
Tick ==
  /\ now < MaxNow
  /\ minted > 0
  /\ \A r \in Slots : ops[r].pc = "idle"
  /\ now' = now + 1
  /\ reply' = NoReply
  /\ UNCHANGED <<db, txn, snap, ops, uuids, minted, calls, solo, budget>>

\* Teams are created, invitations issued and redeemed.
NextJoin ==
  \/ \E s \in Slots, n \in TeamNames, u \in Users, p \in ProfileNames :
       CreateTeamInsertTeam(s, n, u, p)
  \/ \E s \in Slots : CreateTeamInsertMember(s)
  \/ \E s \in Slots, t \in KnownTeams, u \in Users :
       GenerateInviteSelect(s, t, u)
  \/ \E s \in Slots : GenerateInviteInsert(s)
  \/ \E s \in Slots, k \in KnownTokens, u \in Users, p \in ProfileNames :
       JoinSelect(s, k, u, p)
  \/ \E s \in Slots : JoinInsert(s)

Next ==
  \/ NextJoin
  \/ \E s \in Slots, t \in KnownTeams, u \in Users : LeaveSelectTeam(s, t, u)
  \/ \E s \in Slots : LeaveSelectMember(s)
  \/ \E s \in Slots : LeaveDelete(s)
  \/ \E s \in Slots, t \in KnownTeams, u \in Users : DeleteTeamSelect(s, t, u)
  \/ \E s \in Slots : DeleteTeamBegin(s)
  \/ \E s \in Slots : DeleteTeamMembers(s)
  \/ \E s \in Slots : DeleteTeamInvitations(s)
  \/ \E s \in Slots : DeleteTeamRow(s)
  \/ \E s \in Slots : DeleteTeamCommit(s)
  \/ \E s \in Slots, u \in Users, t \in KnownTeams, m \in MemberIdLists :
       CreateExpenseBegin(s, u, t, m)
  \/ \E s \in Slots : CreateExpenseInsertMembers(s)
  \/ \E s \in Slots : CreateExpenseCommit(s)
  \/ \E s \in Slots : CreateExpenseRollback(s)

\* The joining flow while time passes.
NextClock ==
  \/ NextJoin
  \/ Tick

\* Teams are created and expenses recorded, changed, read and deleted.
NextExpense ==
  \/ \E s \in Slots, n \in TeamNames, u \in Users, p \in ProfileNames :
       CreateTeamInsertTeam(s, n, u, p)
  \/ \E s \in Slots : CreateTeamInsertMember(s)
  \/ \E s \in Slots, u \in Users, t \in KnownTeams, m \in MemberIdLists :
       CreateExpenseBegin(s, u, t, m)
  \/ \E s \in Slots : CreateExpenseInsertMembers(s)
  \/ \E s \in Slots : CreateExpenseCommit(s)
  \/ \E s \in Slots : CreateExpenseRollback(s)
  \/ \E s \in Slots, u \in Users, t \in KnownTeams, e \in ExpenseIds,
        m \in MemberIdLists :
       UpdateExpenseBegin(s, u, t, e, m)
  \/ \E s \in Slots : UpdateExpenseDelete(s)
  \/ \E s \in Slots : UpdateExpenseSelect(s)
  \/ \E s \in Slots : UpdateExpenseInsert(s)
  \/ \E s \in Slots : UpdateExpenseCommit(s)
  \/ \E s \in Slots : UpdateExpenseRollback(s)
  \/ \E s \in Slots, u \in Users, t \in KnownTeams, e \in ExpenseIds :
       DeleteExpense(s, u, t, e)
  \/ \E s \in Slots, u \in Users, t \in KnownTeams, e \in ExpenseIds :
       GetExpense(s, u, t, e)

\* Members come and go while the owner keeps the ledger.
NextLedger ==
  \/ NextJoin
  \/ \E s \in Slots, t \in KnownTeams, u \in Users : LeaveSelectTeam(s, t, u)
  \/ \E s \in Slots : LeaveSelectMember(s)
  \/ \E s \in Slots : LeaveDelete(s)
  \/ \E s \in Slots, t \in KnownTeams, u \in Users, a \in AmountBodies :
       SetContributionAmountSelect(s, t, u, a)
  \/ \E s \in Slots : SetContributionAmountUpdate(s)
  \/ \E s \in Slots, t \in KnownTeams, m \in Users, h \in HasPaidBodies,
        u \in Users :
       UpdatePaymentStatusSelect(s, t, m, h, u)
  \/ \E s \in Slots : UpdatePaymentStatusUpdate(s)

\* Every team route and every expense route, asked with and without a
\* session, and the statements their operations go on to issue.
NextRoutes ==
  \/ \E s \in Slots, u \in Sessions, n \in TeamNames :
       Authenticated(s, u, "createTeam", "",
                     CreateTeamInsertTeam(s, n, u, "nm"))
  \/ \E s \in Slots : CreateTeamInsertMember(s)
  \/ \E s \in Slots, u \in Sessions :
       Authenticated(s, u, "getUserTeams", "", GetTeams(s, u))
  \/ \E s \in Slots, u \in Sessions, t \in KnownTeams :
       Authenticated(s, u, "generateInviteLink", "",
                     GenerateInviteSelect(s, t, u))
  \/ \E s \in Slots : GenerateInviteInsert(s)
  \/ \E s \in Slots, u \in Sessions, k \in KnownTokens :
       Authenticated(s, u, "joinTeamWithInvite", k, JoinSelect(s, k, u, "nm"))
  \/ \E s \in Slots : JoinInsert(s)
  \/ \E s \in Slots, u \in Sessions, t \in KnownTeams :
       Authenticated(s, u, "deleteTeam", "", DeleteTeamSelect(s, t, u))
  \/ \E s \in Slots : DeleteTeamBegin(s)
  \/ \E s \in Slots : DeleteTeamMembers(s)
  \/ \E s \in Slots : DeleteTeamInvitations(s)
  \/ \E s \in Slots : DeleteTeamRow(s)
  \/ \E s \in Slots : DeleteTeamCommit(s)
  \/ \E s \in Slots, u \in Sessions, t \in KnownTeams :
       Authenticated(s, u, "leaveTeam", "", LeaveSelectTeam(s, t, u))
  \/ \E s \in Slots : LeaveSelectMember(s)
  \/ \E s \in Slots : LeaveDelete(s)
  \/ \E s \in Slots, u \in Sessions, t \in KnownTeams :
       Authenticated(s, u, "setContributionAmount", "",
                     SetContributionAmountSelect(s, t, u,
                                                 JsonNumber(<<"1", "0">>)))
  \/ \E s \in Slots : SetContributionAmountUpdate(s)
  \/ \E s \in Slots, u \in Sessions, t \in KnownTeams :
       Authenticated(s, u, "updatePaymentStatus", "",
                     UpdatePaymentStatusSelect(s, t, "u1",
                                               JsonBoolean(<<"t", "r", "u", "e">>),
                                               u))
  \/ \E s \in Slots : UpdatePaymentStatusUpdate(s)
  \/ \E s \in Slots, u \in Sessions, t \in KnownTeams :
       Authenticated(s, u, "getTeamContributionDetails", "",
                     GetContribution(s, u, t))
  \/ \E s \in Slots, u \in Sessions, t \in KnownTeams :
       Authenticated(s, u, "getTeamDetails", "", GetMembers(s, u, t))
  \/ \E s \in Slots : GetTeamDetailsContribution(s)
  \/ \E s \in Slots : GetTeamDetailsMembers(s)
  \/ \E s \in Slots, u \in Sessions, t \in KnownTeams, m \in MemberIdLists :
       Authenticated(s, u, "createExpense", "", CreateExpenseBegin(s, u, t, m))
  \/ \E s \in Slots : CreateExpenseInsertMembers(s)
  \/ \E s \in Slots : CreateExpenseCommit(s)
  \/ \E s \in Slots : CreateExpenseRollback(s)
  \/ \E s \in Slots, u \in Sessions, t \in KnownTeams :
       Authenticated(s, u, "getTeamExpenses", "", GetExpenses(s, u, t))
  \/ \E s \in Slots, u \in Sessions, t \in KnownTeams, e \in ExpenseIds :
       Authenticated(s, u, "getExpense", "", GetExpense(s, u, t, e))
  \/ \E s \in Slots, u \in Sessions, t \in KnownTeams, e \in ExpenseIds,
        m \in MemberIdLists :
       Authenticated(s, u, "updateExpense", "",
                     UpdateExpenseBegin(s, u, t, e, m))
  \/ \E s \in Slots : UpdateExpenseDelete(s)
  \/ \E s \in Slots : UpdateExpenseSelect(s)
  \/ \E s \in Slots : UpdateExpenseInsert(s)
  \/ \E s \in Slots : UpdateExpenseCommit(s)
  \/ \E s \in Slots : UpdateExpenseRollback(s)
  \/ \E s \in Slots, u \in Sessions, t \in KnownTeams, e \in ExpenseIds :
       Authenticated(s, u, "deleteExpense", "", DeleteExpense(s, u, t, e))
  \/ \E s \in Slots, u \in Sessions, t \in KnownTeams :
       Authenticated(s, u, "getTeamExpensesSummary", "", GetSummary(s, u, t))

\* The connection runs the next statement request s has queued.
Statement(s) ==
  \/ CreateTeamInsertMember(s)
  \/ GenerateInviteInsert(s)
  \/ JoinInsert(s)
  \/ LeaveSelectMember(s)
  \/ LeaveDelete(s)
  \/ DeleteTeamBegin(s)
  \/ DeleteTeamMembers(s)
  \/ DeleteTeamInvitations(s)
  \/ DeleteTeamRow(s)
  \/ DeleteTeamCommit(s)
  \/ CreateExpenseInsertMembers(s)
  \/ CreateExpenseCommit(s)
  \/ CreateExpenseRollback(s)
  \/ UpdateExpenseDelete(s)
  \/ UpdateExpenseSelect(s)
  \/ UpdateExpenseInsert(s)
  \/ UpdateExpenseCommit(s)
  \/ UpdateExpenseRollback(s)
  \/ SetContributionAmountUpdate(s)
  \/ UpdatePaymentStatusUpdate(s)
  \/ GetTeamDetailsContribution(s)
  \/ GetTeamDetailsMembers(s)

\* Teams are created, joined and deleted.
NextTeams ==
  \/ NextJoin
  \/ \E s \in Slots, t \in KnownTeams, u \in Users : DeleteTeamSelect(s, t, u)
  \/ \E s \in Slots : DeleteTeamBegin(s)
  \/ \E s \in Slots : DeleteTeamMembers(s)
  \/ \E s \in Slots : DeleteTeamInvitations(s)
  \/ \E s \in Slots : DeleteTeamRow(s)
  \/ \E s \in Slots : DeleteTeamCommit(s)

\* Whether a createTeam is in flight.
CreatingTeam == \E r \in Slots : ops[r].op = "createTeam"

\* Members come, go and pay while the team's details are read; a team is
\* created while nothing else is in flight.
NextDetails ==
  \/ \E s \in Slots, n \in TeamNames, u \in Users, p \in ProfileNames :
       Exclusive(s) /\ CreateTeamInsertTeam(s, n, u, p)
  \/ \E s \in Slots : CreateTeamInsertMember(s)
  \/ \E s \in Slots, t \in KnownTeams, u \in Users :
       ~CreatingTeam /\ GenerateInviteSelect(s, t, u)
  \/ \E s \in Slots : GenerateInviteInsert(s)
  \/ \E s \in Slots, k \in KnownTokens, u \in Users, p \in ProfileNames :
       ~CreatingTeam /\ JoinSelect(s, k, u, p)
  \/ \E s \in Slots : JoinInsert(s)
  \/ \E s \in Slots, t \in KnownTeams, u \in Users :
       ~CreatingTeam /\ LeaveSelectTeam(s, t, u)
  \/ \E s \in Slots : LeaveSelectMember(s)
  \/ \E s \in Slots : LeaveDelete(s)
  \/ \E s \in Slots, t \in KnownTeams, m \in Users, h \in HasPaidBodies,
        u \in Users :
       ~CreatingTeam /\ UpdatePaymentStatusSelect(s, t, m, h, u)
  \/ \E s \in Slots : UpdatePaymentStatusUpdate(s)
  \/ \E s \in Slots, u \in Users, t \in KnownTeams :
       ~CreatingTeam /\ GetMembers(s, u, t)
  \/ \E s \in Slots : GetTeamDetailsContribution(s)
  \/ \E s \in Slots : GetTeamDetailsMembers(s)

\* Requests of any kind, arriving while others are in flight.
Spec == Init /\ [][Next]_vars

\* Requests of any kind, each sent after the previous one has ended.
SpecSeq == InitSeq /\ [][Next]_vars

\* The expense ledger, requests sent one after the other.
SpecExpense == InitSeq /\ [][NextExpense]_vars

\* The joining flow over the days, requests sent one after the other.
SpecClock == InitSeq /\ [][NextClock]_vars

\* The expense requests when the connection never leaves a queued statement
\* waiting for ever.
SpecExpenseFair ==
  SpecExpense /\ \A s \in Slots : WF_vars(Statement(s))

\* Joining and deleting teams, requests arriving while others are in flight.
SpecTeams == Init /\ [][NextTeams]_vars

\* Reading a team's details while other requests are in flight.
SpecDetails == InitDetails /\ [][NextDetails]_vars

\* Creating and joining teams, requests arriving while others are in flight.
SpecJoinRace == InitDetails /\ [][NextJoin]_vars

\* Every route, one request at a time.
SpecRoutes == InitSeq /\ [][NextRoutes]_vars

\* The ledger, one request at a time.
SpecLedger == InitLedger /\ [][NextLedger]_vars

(* ------------------------------------------------------------ properties *)

\* The request a step accepted, if it accepted one: as answered at once, or
\* as left in its slot with no answer yet.
Accepted ==
  IF calls' # calls + 1 THEN {}
  ELSE {r \in {reply'} : r.op # "none"}
         \cup {Settled(ops'[s], "", "", 0) :
                 s \in {x \in Slots : ops[x].pc = "idle" /\ ops'[x].pc # "idle"}}

\* The rows of team_members with the given key.
Memberships(rows, team, user) ==
  {m \in rows : m.team_id = team /\ m.user_id = user}

\* C3: createTeam with a name some team already has, by whichever user, is
\* answered DuplicateName by the statement that tried the insert, and that
\* statement leaves every table as it was.
C3_DuplicateNameRejected ==
  [][\A r \in Accepted :
       (r.op = "createTeam" /\ \E t \in db.teams : t.name = r.name)
         => /\ reply'.op = "createTeam"
            /\ reply'.res = "DuplicateName"
            /\ db' = db]_vars

\* A second createTeam with the name of another user's team was rejected.
C3_Witness ==
  /\ reply.op = "createTeam"
  /\ reply.res = "DuplicateName"
  /\ \E t \in db.teams : t.name = reply.name /\ t.created_by # reply.user

\* C4: deleteTeam of a team that does not exist or that the requester did
\* not create is answered Unauthorized by its first statement, which changes
\* no table, opens no transaction and issues no further statement.
C4_DeleteTeamUnauthorized ==
  [][\A r \in Accepted :
       (r.op = "deleteTeam"
          /\ ~\E t \in db.teams : t.id = r.team /\ t.created_by = r.user)
         => /\ reply'.op = "deleteTeam"
            /\ reply'.res = "Unauthorized"
            /\ db' = db /\ txn' = txn /\ ops' = ops]_vars

\* A member who is not the owner was refused the deletion of a team that has
\* a membership row and an expense.
C4_Witness ==
  /\ reply.op = "deleteTeam"
  /\ reply.res = "Unauthorized"
  /\ \E t \in db.teams : t.id = reply.team /\ t.created_by # reply.user
  /\ \E m \in db.team_members : m.team_id = reply.team
  /\ \E e \in db.team_expenses : e.team_id = IntegerAffinity(reply.team)

\* C1: whenever no request is in flight, getUserTeams of a team's creator
\* lists that team, and lists it with is_creator = 1.
C1_OwnerListsOwnTeam ==
  (\A s \in Slots : ops[s].pc = "idle")
    => \A t \in db.teams :
         \E r \in getUserTeams(t.created_by) : r.id = t.id /\ r.is_creator = 1

\* C2: when createTeam is answered, the team row and the owner's membership
\* row are both there (it resolved) or neither is (it was rejected).
C2_CreateTeamAtomic ==
  (reply.op = "createTeam" /\ reply.res # "DuplicateName")
    => LET team == {t \in db.teams : t.id = reply.team}
           owner == Memberships(db.team_members, reply.team, reply.user) IN
       IF reply.res = "ok" THEN team # {} /\ owner # {}
                           ELSE team = {} /\ owner = {}

\* The rows of the five tables that belong to a team: its own row, its
\* memberships and invitations, its expenses and their participants.
RowsOfTeam(d, team) ==
  LET exps == {e \in d.team_expenses : e.team_id = IntegerAffinity(team)} IN
  [teams |-> {t \in d.teams : t.id = team},
   team_members |-> {m \in d.team_members : m.team_id = team},
   team_invitations |-> {i \in d.team_invitations : i.team_id = team},
   team_expenses |-> exps,
   expense_members |->
     {p \in d.expense_members : \E e \in exps : p.expense_id = e.id}]

NoRows ==
  [teams |-> {}, team_members |-> {}, team_invitations |-> {},
   team_expenses |-> {}, expense_members |-> {}]

\* C5: once the last statement of a deleteTeam by the owner has run (its
\* COMMIT, closing its own transaction), no row of that team is left in any
\* of the five tables, and no statement of it touched a row of another team.
C5_DeleteTeamCascades ==
  [][\A s \in Slots :
       /\ (ops[s].op = "deleteTeam" /\ ops[s].pend = {"commit"} /\ txn
             /\ ops'[s].pc = "idle")
            => RowsOfTeam(db', ops[s].team) = NoRows
       /\ (ops[s].op = "deleteTeam" /\ ops'[s] # ops[s])
            => \A other \in KnownTeams \ {ops[s].team} :
                 RowsOfTeam(db', other) = RowsOfTeam(db, other)]_vars

\* The instant a stored expires_at stands for.
Instant(iso) == iso[1] * TicksPerDay + iso[3]

\* C6: joinTeamWithInvite with a token whose invitation expires at t0 + 7
\* days passes its validity test at every instant before that one and is
\* answered InvalidOrExpiredInvite at that instant and at every later one.
C6_InviteValidForSevenDays ==
  [][\A r \in Accepted :
       r.op = "joinTeamWithInvite"
         => \A i \in db.team_invitations :
              i.token = r.token
                => IF now < Instant(i.expires_at)
                   THEN r.res # "InvalidOrExpiredInvite"
                   ELSE r.res = "InvalidOrExpiredInvite"]_vars

C8_OwnerCannotLeave ==
  [][/\ \A r \in Accepted :
          (r.op = "leaveTeam"
             /\ \E t \in db.teams : t.id = r.team /\ t.created_by = r.user)
            => /\ reply'.op = "leaveTeam"
               /\ reply'.res = "OwnerCannotLeave"
               /\ db' = db
     /\ reply'.op = "leaveTeam"
          => \A t \in db.teams :
               Memberships(db.team_members, t.id, t.created_by)
                 \subseteq db'.team_members]_vars

\* The owner was refused while the team had another member as well.
C8_Witness ==
  /\ reply.op = "leaveTeam"
  /\ reply.res = "OwnerCannotLeave"
  /\ Memberships(db.team_members, reply.team, reply.user) # {}
  /\ \E m \in db.team_members :
       m.team_id = reply.team /\ m.user_id # reply.user

\* C9: a leaveTeam that is not refused for ownership is answered NotAMember
\* when the user has no membership row in the team, and then no table
\* changed; otherwise it resolves, and its last statement removed that one
\* row and nothing else.
C9_LeaveRemovesOneRow ==
  [][reply'.op = "leaveTeam"
       => LET had == Memberships(db.team_members, reply'.team, reply'.user) IN
          CASE reply'.res = "OwnerCannotLeave" ->
                 \E t \in db.teams :
                   t.id = reply'.team /\ t.created_by = reply'.user
            [] reply'.res = "NotAMember" -> had = {} /\ db' = db
            [] reply'.res = "ok" ->
                 /\ Cardinality(had) = 1
                 /\ db' = [db EXCEPT !.team_members = @ \ had]
            [] OTHER -> FALSE]_vars

\* A member left a team and the team and its owner's membership are there.
C9_Witness ==
  /\ reply.op = "leaveTeam"
  /\ reply.res = "ok"
  /\ reply.changes = 1
  /\ Memberships(db.team_members, reply.team, reply.user) = {}
  /\ \E t \in db.teams :
       /\ t.id = reply.team
       /\ Memberships(db.team_members, t.id, t.created_by) # {}

\* C10: with no other request in flight, a createExpense is rejected when
\* its participant list is empty or holds an id that is no number; when it
\* was rejected, its last statement leaves no expense row and no participant
\* row of that expense; when it resolved, its last statement leaves the
\* expense row and one participant row per id, outside any transaction.
C10_CreateExpenseAllOrNothing ==
  [][/\ reply'.op = "createExpense"
          => /\ (reply'.members = <<>>
                   \/ \E i \in DOMAIN reply'.members :
                        reply'.members[i] \in Users)
                  => reply'.res = "SqlError"
             /\ reply'.res \in {"ok", "SqlError"}
     /\ \A s \in Slots :
          (ops[s].pc = "ce_end" /\ ops'[s].pc = "idle")
            => LET o == ops[s]
                   exp == {e \in db'.team_expenses : e.id = o.eid}
                   parts == {p \in db'.expense_members :
                               p.expense_id = o.eid} IN
               /\ ~txn'
               /\ IF "rollback" \in o.pend
                  THEN exp = {} /\ parts = {}
                  ELSE /\ Cardinality(exp) = 1
                       /\ Cardinality(parts) = Len(o.members)]_vars

\* An expense with two participants is stored and committed, and a later
\* createExpense has just been rejected.
C10_Witness ==
  /\ reply.op = "createExpense"
  /\ reply.res = "SqlError"
  /\ \E e \in snap.team_expenses :
       Cardinality({p \in snap.expense_members : p.expense_id = e.id}) = 2

\* The participant rows of an expense.
Participants(d, eid) == {p \in d.expense_members : p.expense_id = eid}

\* C11: getExpense of a committed expense, asked under the team the expense
\* was created in, resolves with a row whose member_ids are exactly the user
\* ids of the participant rows createExpense stored for it.
C11_GetExpenseReturnsParticipants ==
  [][\A r \in Accepted :
       (/\ r.op = "getExpense"
        /\ ~txn
        /\ Participants(db, r.eid) # {}
        /\ \E e \in db.team_expenses :
             e.id = r.eid /\ e.team_id = IntegerAffinity(r.team))
         => /\ reply'.res = "ok"
            /\ \E row \in reply'.out :
                 row.member_ids = {p.user_id : p \in Participants(db, r.eid)}]_vars

\* The numbers a list of participant ids names.
IdsOf(members) ==
  {n \in 0..9 : \E i \in DOMAIN members : members[i] = Digits[n + 1]}

\* C12: with no other request in flight, when the last statement of an
\* updateExpense that resolved has run, the expense has one participant row
\* per id of the call and no other, its id and team_id are those it had
\* before the call and the participant rows of other expenses are those of
\* before the call; when an updateExpense ends in any other way, every
\* table is as it was before the call.
C12_UpdateExpenseReplaces ==
  [][\A s \in Slots :
       (ops[s].op = "updateExpense" /\ ops'[s].pc = "idle")
         => LET o == ops[s] IN
            IF o.pc = "ue_end" /\ "commit" \in o.pend
            THEN /\ {p.user_id : p \in Participants(db', o.eid)}
                      = IdsOf(o.members)
                 /\ Cardinality(Participants(db', o.eid)) = Len(o.members)
                 /\ \E e \in db'.team_expenses : \E b \in snap.team_expenses :
                      e.id = o.eid /\ b.id = o.eid /\ e.team_id = b.team_id
                 /\ \A x \in ExpenseIds \ {o.eid} :
                      Participants(db', x) = Participants(snap, x)
                 /\ ~txn'
            ELSE db' = snap /\ ~txn']_vars

\* An updateExpense has just resolved for an expense that had two
\* participants before the call and has one now.
C12_Witness ==
  /\ reply.op = "updateExpense"
  /\ reply.res = "ok"
  /\ Cardinality(Participants(snap, reply.eid)) = 2
  /\ {p.user_id : p \in Participants(db, reply.eid)} = {1}

\* C13: when deleteExpense resolves, no expense row and no participant row
\* with that expense id is left, and every participant row that is left
\* names an expense that exists.
C13_DeleteExpenseCascades ==
  [][reply'.op = "deleteExpense"
       => /\ reply'.res = "ok"
          /\ ~\E e \in db'.team_expenses : e.id = reply'.eid
          /\ Participants(db', reply'.eid) = {}
          /\ \A p \in db'.expense_members :
               \E e \in db'.team_expenses : e.id = p.expense_id]_vars

\* C18: a createExpense, updateExpense or deleteExpense asked by a user who
\* neither created the team named in the request nor has a membership row in
\* it is answered Unauthorized by its first statement, which leaves the two
\* expense tables as they are.
C18_ExpensesNeedMembership ==
  [][\A r \in Accepted :
       (/\ r.op \in {"createExpense", "updateExpense", "deleteExpense"}
        /\ ~\E t \in db.teams : t.id = r.team /\ t.created_by = r.user
        /\ Memberships(db.team_members, r.team, r.user) = {})
         => /\ reply'.res = "Unauthorized"
            /\ db'.team_expenses = db.team_expenses
            /\ db'.expense_members = db.expense_members]_vars

\* C14: under overlapping requests a ROLLBACK issued by one request undoes
\* no write another request was told had succeeded (every membership and
\* invitation row is inserted by a statement whose success is reported at
\* once, so none of them vanishes in a ROLLBACK), and whenever no request is
\* in flight and no transaction is open every expense is whole: its row is
\* there with its participant rows.
C14_UnitsAreIsolated ==
  [][/\ \A s \in Slots :
          (/\ ops[s].op \in {"createExpense", "updateExpense"}
           /\ "rollback" \in ops[s].pend
           /\ txn /\ ~txn'
           /\ ops'[s].pc = "idle")
            => /\ db.team_members \subseteq db'.team_members
               /\ db.team_invitations \subseteq db'.team_invitations
     /\ ((\A s \in Slots : ops'[s].pc = "idle") /\ ~txn')
          => \A e \in db'.team_expenses : Participants(db', e.id) # {}]_vars

\* C15: for every team there is, both contribution summaries report as
\* paidMembers the number of the team's membership rows with has_paid = 1,
\* as totalAmount the contribution amount times the number of its membership
\* rows and as collectedAmount the amount times paidMembers, so that
\* paidMembers <= totalMembers and collectedAmount <= totalAmount; a team
\* whose amount is NULL has no amounts in the one summary and 0 in the other.
C15_SummaryMatchesRows ==
  \A t \in db.teams :
    LET ms == {m \in db.team_members : m.team_id = t.id}
        n == Cardinality(ms)
        k == Cardinality({m \in ms : m.has_paid = 1})
        a == t.contribution_amount IN
    /\ \E r \in getTeamContributionDetails(db, t.id) : TRUE
    /\ \E r \in getTeamDetails(db, t.id) : TRUE
    /\ \A r \in getTeamContributionDetails(db, t.id) :
         /\ r.total_members = n /\ r.paid_members = k /\ k <= n
         /\ IF a.int
            THEN /\ r.total_amount = IntVal(a.n * n)
                 /\ r.collected_amount = IntVal(a.n * k)
                 /\ r.collected_amount.n <= r.total_amount.n
            ELSE r.total_amount = NullVal /\ r.collected_amount = NullVal
    /\ \A r \in getTeamDetails(db, t.id) :
         LET c == r.contribution
             x == IF a.int THEN a.n ELSE 0 IN
         /\ c.paidMembers = k /\ r.total_members = n
         /\ c.totalAmount = x * n
         /\ c.collectedAmount = x * k
         /\ c.collectedAmount <= c.totalAmount

\* A team with a positive amount and two members, one of whom has paid.
C15_Witness ==
  /\ \A s \in Slots : ops[s].pc = "idle"
  /\ \E t \in db.teams :
       /\ t.contribution_amount.int /\ t.contribution_amount.n > 0
       /\ \E m1, m2 \in db.team_members :
            /\ m1.team_id = t.id /\ m2.team_id = t.id
            /\ m1.has_paid = 1 /\ m2.has_paid = 0

\* Whether a request's amount is written as a number: a JSON number, or a
\* string holding an optional sign and decimal digits.
WrittenAsNumber(a) ==
  /\ a.type \in {"number", "string"}
  /\ a.text # <<>>
  /\ LET ds == IF a.text[1] \in {"-", "+"} THEN Tail(a.text) ELSE a.text IN
     ds # <<>> /\ \A i \in DOMAIN ds : IsDigit(ds[i])

\* Whether an amount written as a number is zero or below.
WrittenNotPositive(a) ==
  \/ a.text[1] = "-"
  \/ \A i \in DOMAIN a.text : a.text[i] \in {"0", "+"}

\* C16: setContributionAmount by the team's owner with an amount that is
\* not a number, or is zero or negative, is answered InvalidAmount at once,
\* writes nothing and issues no statement; and no team ever has a negative
\* contribution_amount stored.
C16_InvalidAmountRejected ==
  [][/\ \A r \in Accepted :
          (/\ r.op = "setContributionAmount"
           /\ \E t \in db.teams : t.id = r.team /\ t.created_by = r.user
           /\ (~WrittenAsNumber(r.body) \/ WrittenNotPositive(r.body)))
            => /\ reply'.res = "InvalidAmount"
               /\ db' = db
               /\ ops' = ops
     /\ \A t \in db'.teams :
          t.contribution_amount.int => t.contribution_amount.n >= 0]_vars

\* C17: generateInviteLink, setContributionAmount (once the route has let
\* the amount through) and updatePaymentStatus, asked for by someone who is
\* not the created_by of the team, or for a team that does not exist, are
\* answered Unauthorized by their first statement: no table changes, no
\* token is minted and no further statement is issued.
C17_OwnerOnlyBeforeWrite ==
  [][\A r \in Accepted :
       (/\ r.op \in {"generateInviteLink", "setContributionAmount",
                     "updatePaymentStatus"}
        /\ ~\E t \in db.teams : t.id = r.team /\ t.created_by = r.user
        /\ reply'.res # "InvalidAmount")
         => /\ reply'.op = r.op
            /\ reply'.res = "Unauthorized"
            /\ db' = db /\ minted' = minted /\ ops' = ops]_vars

\* A member who is not the owner was refused when marking a member of the
\* team as paid.
C17_Witness ==
  /\ reply.op = "updatePaymentStatus"
  /\ reply.res = "Unauthorized"
  /\ \E t \in db.teams : t.id = reply.team /\ t.created_by # reply.user
  /\ Memberships(db.team_members, reply.team, reply.user) # {}
  /\ Memberships(db.team_members, reply.team, reply.member) # {}

\* C19: a request to any team or expense route that carries no session is
\* answered 401 (the invitation link: a redirect) by the step that takes it,
\* and that step changes no table, opens no transaction, mints nothing and
\* hands no statement of any operation to the connection.
C19_NoSessionNoOperation ==
  [][\A r \in Accepted :
       r.user = NoSession
         => /\ reply'.op = r.op
            /\ reply'.res \in {"401", "redirect"}
            /\ db' = db /\ txn' = txn /\ snap' = snap
            /\ ops' = ops /\ minted' = minted /\ uuids' = uuids]_vars

\* A request without a session for the deletion of a team that has rows was
\* turned away.
C19_Witness ==
  /\ reply.user = NoSession
  /\ reply.res = "401"
  /\ reply.op = "deleteTeam"
  /\ db.teams # {}
  /\ db.team_members # {}

\* C20: no statement of joinTeamWithInvite or generateInviteLink deletes or
\* alters an invitation row (a redemption leaves the table exactly as it
\* was); a token whose invitation has not expired is never refused, whoever
\* redeemed it before and whichever invitations came after; and every
\* redemption that resolves leaves exactly one membership row of that user
\* in the invitation's team.
C20_RedeemKeepsInvitation ==
  [][/\ (\/ reply'.op \in {"joinTeamWithInvite", "generateInviteLink"}
         \/ \E s \in Slots :
              ops'[s].op \in {"joinTeamWithInvite", "generateInviteLink"})
          => /\ db.team_invitations \subseteq db'.team_invitations
             /\ (reply'.op = "joinTeamWithInvite"
                   \/ \E s \in Slots : ops'[s].op = "joinTeamWithInvite")
                  => db'.team_invitations = db.team_invitations
     /\ \A r \in Accepted :
          (/\ r.op = "joinTeamWithInvite"
           /\ \E i \in db.team_invitations :
                i.token = r.token /\ now < Instant(i.expires_at))
            => r.res # "InvalidOrExpiredInvite"
     /\ (reply'.op = "joinTeamWithInvite" /\ reply'.res = "ok")
          => /\ \E i \in db.team_invitations :
                  i.token = reply'.token /\ i.team_id = reply'.team
             /\ Cardinality(Memberships(db'.team_members, reply'.team,
                                        reply'.user)) = 1]_vars

\* C21: the UPDATE of an updatePaymentStatus by the owner gives the
\* membership row of (team, member) the has_paid asked for (1 for true, 0
\* for false) and leaves every other membership row and every other table as
\* it was, creating no row when there is no such membership; the UPDATE of a
\* setContributionAmount changes nothing but the contribution_amount of the
\* one team.
C21_LedgerWritesOneCell ==
  [][\A s \in Slots :
       /\ (ops[s].op = "updatePaymentStatus" /\ ops'[s].pc = "idle")
            => LET o == ops[s]
                   want == IF o.body.text = <<"t", "r", "u", "e">> THEN 1 ELSE 0
                   mine == Memberships(db.team_members, o.team, o.member) IN
               /\ reply'.res = "ok"
               /\ Memberships(db'.team_members, o.team, o.member)
                    = {[m EXCEPT !.has_paid = want] : m \in mine}
               /\ db'.team_members \ Memberships(db'.team_members, o.team,
                                                 o.member)
                    = db.team_members \ mine
               /\ mine = {} => db' = db
               /\ [db' EXCEPT !.team_members = {}]
                    = [db EXCEPT !.team_members = {}]
       /\ (ops[s].op = "setContributionAmount" /\ ops'[s].pc = "idle")
            => LET o == ops[s] IN
               /\ reply'.res = "ok"
               /\ {x \in db'.teams : x.id # o.team}
                    = {x \in db.teams : x.id # o.team}
               /\ {[x EXCEPT !.contribution_amount = NullVal] : x \in db'.teams}
                    = {[x EXCEPT !.contribution_amount = NullVal] :
                         x \in db.teams}
               /\ [db' EXCEPT !.teams = {}] = [db EXCEPT !.teams = {}]]_vars

\* The owner marked the second member of a team as paid and the owner's own
\* row stayed unpaid.
C21_Witness ==
  /\ reply.op = "updatePaymentStatus"
  /\ reply.res = "ok"
  /\ reply.changes = 1
  /\ \E m \in Memberships(db.team_members, reply.team, reply.member) :
       m.has_paid = 1
  /\ \E m \in db.team_members :
       m.team_id = reply.team /\ m.user_id # reply.member /\ m.has_paid = 0

\* C22: a createExpense, updateExpense or deleteTeam that has handed BEGIN
\* TRANSACTION to the connection ends with its own COMMIT or ROLLBACK as its
\* last statement, run while its transaction is open and closing it; and
\* whenever no request is in flight the connection is in no transaction.
C22_BeginHasOneEnd ==
  [][/\ \A s \in Slots :
          (/\ ops[s].op \in {"createExpense", "updateExpense", "deleteTeam"}
           /\ ops[s].pc # "idle"
           /\ ops'[s].pc = "idle")
            => /\ ops[s].pend \in {{"commit"}, {"rollback"}}
               /\ txn /\ ~txn'
               /\ "rollback" \in ops[s].pend => db' = snap
               /\ "commit" \in ops[s].pend => db' = db
     /\ (\A s \in Slots : ops'[s].pc = "idle") => ~txn']_vars

\* The operations whose promise a callback of a later statement settles.
PendingOps == {"createTeam", "createExpense", "updateExpense"}

\* Whether the promise of request o is still pending.
Unsettled(o) == o.pc \notin {"idle", "ce_end", "ue_end"}

\* C23: whenever a call of an operation is in flight with its promise
\* pending, a call of that operation is eventually resolved or rejected; in
\* particular an updateExpense whose SELECT is still to run.
C23_EveryCallSettles ==
  \A o \in PendingOps :
    (\E s \in Slots : ops[s].op = o /\ Unsettled(ops[s])) ~> (reply.op = o)

\* C24: when the insert of a joinTeamWithInvite or of a generateInviteLink
\* is the last statement in flight, with no transaction left open, the team
\* of that request has a row in teams if any membership or invitation row
\* refers to it, whatever deleteTeam ran between the request's check and its
\* insert.
C24_InsertsReferToTeams ==
  [][\A s \in Slots :
       (/\ ops[s].op \in {"joinTeamWithInvite", "generateInviteLink"}
        /\ ops[s].pc # "idle"
        /\ reply'.op = ops[s].op
        /\ \A r \in Slots : ops'[r].pc = "idle"
        /\ ~txn')
         => \A id \in {m.team_id : m \in {x \in db'.team_members :
                                            x.team_id = ops[s].team}}
                        \cup {i.team_id : i \in {x \in db'.team_invitations :
                                                   x.team_id = ops[s].team}} :
              \E t \in db'.teams : t.id = id]_vars

\* C25: the object one getTeamDetails call resolves with agrees with
\* itself: total_members is the number of members it lists, paidMembers the
\* number of listed members with has_paid = 1, and totalAmount the amount
\* times the number of listed members.
C25_DetailsAgree ==
  reply.op = "getTeamDetails"
    => \A r \in reply.out :
         LET n == Cardinality(r.members) IN
         /\ r.total_members = n
         /\ r.contribution.paidMembers
              = Cardinality({m \in r.members : m.has_paid = 1})
         /\ r.contribution.totalAmount = r.contribution.amount * n

C27_ExpenseOfOtherTeamUntouched ==
  [][\A r \in Accepted :
       (/\ r.op \in {"updateExpense", "deleteExpense"}
        /\ \E e \in db.team_expenses :
             e.id = r.eid /\ e.team_id # IntegerAffinity(r.team))
         => /\ db'.team_expenses = db.team_expenses
            /\ db'.expense_members = db.expense_members]_vars

\* C28: an authenticated GET /api/teams/:teamId/expenses/summary is
\* answered by getTeamExpensesSummary with the number of the team's expenses,
\* the sum of their amounts and their earliest and latest date; for a team
\* without expenses with 0 and NULLs, and not with an error.
C28_SummaryIsServed ==
  [][\A r \in Accepted :
       (r.eid = SummaryId /\ r.user # NoSession
          /\ r.op \in {"getExpense", "getTeamExpensesSummary"})
         => LET mine == {e \in db.team_expenses :
                           e.team_id = IntegerAffinity(r.team)} IN
            /\ reply'.op = "getTeamExpensesSummary"
            /\ reply'.res = "ok"
            /\ \E x \in reply'.out :
                 /\ x.total_expenses = Cardinality(mine)
                 /\ mine = {} => /\ x.total_amount = NullVal
                                 /\ x.first_expense_date = NullVal
                                 /\ x.last_expense_date = NullVal
                 /\ mine # {} => /\ x.total_amount.int
                                 /\ \A e \in mine :
                                      /\ x.first_expense_date.n <= e.expense_date
                                      /\ x.last_expense_date.n >= e.expense_date]_vars

====
